---- MODULE Spec2Model ----
(***************************************************************************)
(* A model of the unrolled linked list of src/lib.rs: a DList of pages,    *)
(* each page a Vec of items, with push / pop / get / get_mut / remove.     *)
(* Page and slot indices are zero-based as in the source; TLA+ sequences   *)
(* are one-based, hence the "+ 1" at every sequence access.                *)
(***************************************************************************)
EXTENDS Integers, Sequences, FiniteSets, TLC

\* ---------------------------------------------------------------- bounds
MaxPageSize == 3          \* page sizes 1..MaxPageSize are explored
MaxPush     == 5          \* number of push calls in one run
MaxPos      == 5          \* positions 0..MaxPos are passed to get / remove
UsizeBits   == 16         \* width of usize in the model (64 in the build)

UsizeModulus == 2 ^ UsizeBits
UsizeMax     == UsizeModulus - 1

\* usize subtraction: the toolchain this crate builds with (DList, `us`
\* literals) wraps on overflow in every build profile.
usize_sub(a, b) == (a - b) % UsizeModulus

PageSizes == 1 .. MaxPageSize
Positions == (0 .. MaxPos) \cup {UsizeMax}
\* arguments of page_of: up to 2 * page_size + 1, as in tests::utilities
PagePositions == 0 .. (2 * MaxPageSize + 1)

\* ------------------------------------------------------- Option / results
None    == [tag |-> "None",  val |-> 0]
Some(v) == [tag |-> "Some",  val |-> v]
Panic   == [tag |-> "Panic", val |-> 0]      \* unwrap() on None, slice index out of range
Unit    == [tag |-> "Unit",  val |-> 0]      \* push returns ()
Usize(n) == [tag |-> "Usize", val |-> n]     \* page_of returns a usize

VARIABLES
    psize,      \* Unrolled.psize
    dlist,      \* Unrolled.dlist : sequence of pages, page = [items |-> Seq]
    len,        \* Unrolled.len
    call,       \* the last public call: [name, arg]
    ret,        \* what that call returned (Panic when it aborted)
    pre,        \* the container as it was when that call started
    live,       \* items pushed and not yet returned by pop / remove, in push order
    prelive,    \* live when the last call started
    pushed,     \* number of push calls so far; the k-th push pushes the value k-1
    popped,     \* number of pop calls so far that returned an item
    phase       \* "push": pushes only; "pop": pushes, then pops only;
                \* "pushpop": pushes and pops interleaved; "any": a remove happened

vars == <<psize, dlist, len, call, ret, pre, live, prelive, pushed, popped, phase>>

\* The container as one value, the `self` of the methods.
Unrolled(ps, dl, ln) == [psize |-> ps, dlist |-> dl, len |-> ln]
this == Unrolled(psize, dlist, len)

\* Page::new : an empty Vec; with_capacity only reserves, it does not limit.
Page_new(ps) == [items |-> << >>]

\* Unrolled::new
Unrolled_new(page_size) == Unrolled(page_size, << >>, 0)

\* page_of counting pages from one
page_of_one_based(self, pos) == pos \div self.psize + 1

\* Returns the zero-indexed page that a zero-indexed item is on
page_of(self, pos) == pos \div self.psize

\* enough_pages_for comparing with `<` instead of `<=`
enough_pages_for_strict(self, pos) ==
    IF Len(self.dlist) = 0
    THEN FALSE
    ELSE page_of(self, pos) < Len(self.dlist) - 1

\* Check if enough pages exist to hold a given index
enough_pages_for(self, pos) ==
    IF Len(self.dlist) = 0
    THEN FALSE
    ELSE page_of(self, pos) <= Len(self.dlist) - 1

\* push storing the item in the page page_of(len) instead of the back page
push_into_page_of(self, item) ==
    LET grown == IF ~enough_pages_for(self, self.len + 1)
                 THEN Append(self.dlist, Page_new(self.psize))
                 ELSE self.dlist
        page  == page_of(self, self.len) + 1
    IN  [self EXCEPT !.dlist = [grown EXCEPT ![page].items = Append(@, item)],
                     !.len   = self.len + 1]

\* Unrolled::push
push(self, item) ==
    LET grown == IF ~enough_pages_for(self, self.len + 1)
                 THEN Append(self.dlist, Page_new(self.psize))
                 ELSE self.dlist
        back  == Len(grown)
    IN  [self EXCEPT !.dlist = [grown EXCEPT ![back].items = Append(@, item)],
                     !.len   = self.len + 1]

\* pop with `self.len -= 1` hoisted out of the match on items.pop()
pop_len_before_match(self) ==
    IF self.len = 0
    THEN [self |-> self, ret |-> None]
    ELSE LET page == page_of(self, self.len)
         IN  IF page >= Len(self.dlist)
             THEN [self |-> self, ret |-> Panic]
             ELSE LET items == self.dlist[page + 1].items
                  IN  IF Len(items) > 0
                      THEN [self |-> [self EXCEPT
                                        !.dlist[page + 1].items = SubSeq(items, 1, Len(items) - 1),
                                        !.len = self.len - 1],
                            ret  |-> Some(items[Len(items)])]
                      ELSE [self |-> [self EXCEPT !.len = self.len - 1], ret |-> None]

\* pop without the `self.len -= 1` of its Some arm
pop_keeps_len(self) ==
    IF self.len = 0
    THEN [self |-> self, ret |-> None]
    ELSE LET page == page_of(self, self.len)
         IN  IF page >= Len(self.dlist)
             THEN [self |-> self, ret |-> Panic]
             ELSE LET items == self.dlist[page + 1].items
                  IN  IF Len(items) > 0
                      THEN [self |-> [self EXCEPT
                                        !.dlist[page + 1].items = SubSeq(items, 1, Len(items) - 1)],
                            ret  |-> Some(items[Len(items)])]
                      ELSE [self |-> self, ret |-> None]

\* Unrolled::pop : the new container and the returned Option
pop(self) ==
    IF self.len = 0
    THEN [self |-> self, ret |-> None]
    ELSE LET page == page_of(self, self.len)
         IN  IF page >= Len(self.dlist)
             THEN [self |-> self, ret |-> Panic]          \* nth(page).unwrap()
             ELSE LET items == self.dlist[page + 1].items
                  IN  IF Len(items) > 0
                      THEN [self |-> [self EXCEPT
                                        !.dlist[page + 1].items = SubSeq(items, 1, Len(items) - 1),
                                        !.len = self.len - 1],
                            ret  |-> Some(items[Len(items)])]
                      ELSE [self |-> self, ret |-> None]

\* Unrolled::len
len_of(self) == self.len

\* Unrolled::get
get(self, pos) ==
    LET page == page_of(self, pos)
        off  == pos % self.psize
    IN  IF page >= Len(self.dlist)
        THEN Panic                                        \* nth(page).unwrap()
        ELSE LET items == self.dlist[page + 1].items
             IN  IF off < Len(items) THEN Some(items[off + 1]) ELSE None

\* Unrolled::get_mut : the same lookup, handing out a mutable reference
get_mut(self, pos) ==
    LET page == page_of(self, pos)
    IN  IF page >= Len(self.dlist)
        THEN Panic
        ELSE LET items == self.dlist[page + 1].items
                 off   == pos % self.psize
             IN  IF off < Len(items) THEN Some(items[off + 1]) ELSE None

\* Unrolled::mut_slice_pages : one mutable slice per page, in chain order.
\* A slice is represented by the index of the page whose buffer it borrows.
mut_slice_pages(self) == [i \in 1 .. Len(self.dlist) |-> i - 1]

\* a swap that copies slot j over slot i and leaves slot j as it was
swap_copy_only(s, i, j) == [s EXCEPT ![i + 1] = s[j + 1]]

\* std::mem::swap of two slots of a sequence (zero-based i, j)
swap(s, i, j) == [s EXCEPT ![i + 1] = s[j + 1], ![j + 1] = s[i + 1]]

\* remove, lines 96-119: "Swap with last, unless it's last".
\* Result: ok = FALSE when an unwrap / split / index panics, else the chain
\* after the swap.
swap_with_last(self, pos, max_idx) ==
    LET item_offset == pos % self.psize
        last_offset == max_idx % self.psize
        page_pos    == page_of(self, pos)
        page_max    == page_of(self, max_idx)
        pages       == mut_slice_pages(self)
        failed      == [ok |-> FALSE, dlist |-> self.dlist]
    IN  IF page_pos # page_max
        THEN \* split_at_mut on the vector of page slices, then get_mut on
             \* each half: the two operands of swap are page slices
             IF page_max > Len(pages)
             THEN failed
             ELSE LET item_page == SubSeq(pages, 1, page_max)
                      last_page == SubSeq(pages, page_max + 1, Len(pages))
                  IN  IF item_offset >= Len(item_page) \/ last_offset >= Len(last_page)
                      THEN failed
                      ELSE LET swapped == swap(pages, item_offset, page_max + last_offset)
                           IN  \* `swapped` is the temporary vector `pages` with two
                               \* slice references exchanged; it is dropped at the end
                               \* of the block and no page buffer was written
                               [ok |-> TRUE, dlist |-> self.dlist]
        ELSE IF page_pos >= Len(pages)
             THEN failed                                  \* pages[page_pos]
             ELSE LET slice == self.dlist[pages[page_pos + 1] + 1].items
                  IN  IF last_offset > Len(slice)
                      THEN failed                         \* split_at_mut(last_offset)
                      ELSE LET item     == SubSeq(slice, 1, last_offset)
                               last     == SubSeq(slice, last_offset + 1, Len(slice))
                               item_len == Len(item)
                               last_idx == usize_sub(last_offset, item_len)
                           IN  IF item_offset >= Len(item) \/ last_idx >= Len(last)
                               THEN failed                \* get_mut(..).unwrap()
                               ELSE [ok    |-> TRUE,
                                     dlist |-> [self.dlist EXCEPT
                                                  ![page_pos + 1].items =
                                                      swap(slice, item_offset, item_len + last_idx)]]

\* remove without the `|| self.len == 0` half of its range check
remove_no_empty_check(self, pos) ==
    LET max_idx == usize_sub(self.len, 1)
    IN  IF pos > max_idx
        THEN [self |-> self, ret |-> None]
        ELSE LET swapped == IF pos # max_idx
                            THEN swap_with_last(self, pos, max_idx)
                            ELSE [ok |-> TRUE, dlist |-> self.dlist]
             IN  IF ~swapped.ok
                 THEN [self |-> self, ret |-> Panic]
                 ELSE pop([self EXCEPT !.dlist = swapped.dlist])

\* remove without the `if pos != max_idx` around the swap
remove_always_swap(self, pos) ==
    LET max_idx == usize_sub(self.len, 1)
    IN  IF pos > max_idx \/ self.len = 0
        THEN [self |-> self, ret |-> None]
        ELSE LET swapped == swap_with_last(self, pos, max_idx)
             IN  IF ~swapped.ok
                 THEN [self |-> self, ret |-> Panic]
                 ELSE pop([self EXCEPT !.dlist = swapped.dlist])

\* Unrolled::remove
remove(self, pos) ==
    LET max_idx == usize_sub(self.len, 1)
    IN  IF pos > max_idx \/ self.len = 0
        THEN [self |-> self, ret |-> None]
        ELSE LET swapped == IF pos # max_idx
                            THEN swap_with_last(self, pos, max_idx)
                            ELSE [ok |-> TRUE, dlist |-> self.dlist]
             IN  IF ~swapped.ok
                 THEN [self |-> self, ret |-> Panic]
                 ELSE pop([self EXCEPT !.dlist = swapped.dlist])

\* ------------------------------------------------------------ the machine
\* live without the item a call returned
Without(s, r) == IF r.tag = "Some" THEN SelectSeq(s, LAMBDA x : x # r.val) ELSE s

Running == ret.tag # "Panic"      \* a panic ends the run

Init ==
    /\ psize \in PageSizes
    /\ dlist = Unrolled_new(psize).dlist
    /\ len = Unrolled_new(psize).len
    /\ call = [name |-> "new", arg |-> 0]
    /\ ret = Unit
    /\ pre = Unrolled_new(psize)
    /\ live = << >>
    /\ prelive = << >>
    /\ pushed = 0
    /\ popped = 0
    /\ phase = "push"

Push ==
    /\ Running
    /\ pushed < MaxPush
    /\ LET post == push(this, pushed)
       IN  /\ dlist' = post.dlist
           /\ len' = post.len
    /\ call' = [name |-> "push", arg |-> pushed]
    /\ ret' = Unit
    /\ pre' = this
    /\ live' = Append(live, pushed)
    /\ prelive' = live
    /\ pushed' = pushed + 1
    /\ phase' = CASE phase = "push" -> "push"
                  [] phase = "pop"  -> "pushpop"
                  [] OTHER          -> phase
    /\ UNCHANGED <<psize, popped>>

Pop ==
    /\ Running
    /\ LET r == pop(this)
       IN  /\ dlist' = r.self.dlist
           /\ len' = r.self.len
           /\ ret' = r.ret
           /\ live' = Without(live, r.ret)
           /\ popped' = IF r.ret.tag = "Some" THEN popped + 1 ELSE popped
    /\ call' = [name |-> "pop", arg |-> 0]
    /\ pre' = this
    /\ prelive' = live
    /\ phase' = CASE phase = "push" -> "pop"
                  [] OTHER          -> phase
    /\ UNCHANGED <<psize, pushed>>

Get ==
    /\ Running
    /\ \E pos \in Positions :
          /\ call' = [name |-> "get", arg |-> pos]
          /\ ret' = get(this, pos)
    /\ pre' = this
    /\ prelive' = live
    /\ UNCHANGED <<psize, dlist, len, live, pushed, popped, phase>>

GetMut ==
    /\ Running
    /\ \E pos \in Positions :
          /\ call' = [name |-> "get_mut", arg |-> pos]
          /\ ret' = get_mut(this, pos)
    /\ pre' = this
    /\ prelive' = live
    /\ UNCHANGED <<psize, dlist, len, live, pushed, popped, phase>>

Remove ==
    /\ Running
    /\ \E pos \in Positions :
          LET r == remove(this, pos)
          IN  /\ call' = [name |-> "remove", arg |-> pos]
              /\ dlist' = r.self.dlist
              /\ len' = r.self.len
              /\ ret' = r.ret
              /\ live' = Without(live, r.ret)
    /\ pre' = this
    /\ prelive' = live
    /\ phase' = "any"
    /\ UNCHANGED <<psize, pushed, popped>>

\* pub fn page_of(&self, pos) : a call from outside, as in tests::utilities
PageOf ==
    /\ Running
    /\ \E pos \in PagePositions :
          /\ call' = [name |-> "page_of", arg |-> pos]
          /\ ret' = Usize(page_of(this, pos))
    /\ pre' = this
    /\ prelive' = live
    /\ UNCHANGED <<psize, dlist, len, live, pushed, popped, phase>>

Next == Push \/ Pop \/ Get \/ GetMut \/ Remove \/ PageOf

Spec == Init /\ [][Next]_vars

TypeOK ==
    /\ psize \in PageSizes
    /\ len \in 0 .. MaxPush
    /\ pushed \in 0 .. MaxPush
    /\ popped \in 0 .. MaxPush
    /\ phase \in {"push", "pop", "pushpop", "any"}
    /\ ret.tag \in {"None", "Some", "Panic", "Unit", "Usize"}

\* ------------------------------------------------------------- properties
RECURSIVE SumItems(_)
SumItems(dl) == IF dl = << >> THEN 0 ELSE Len(Head(dl).items) + SumItems(Tail(dl))

\* C1: pushing 0..n-1 and then popping returns n-1 down to 0, the length
\* dropping by one with each pop; a pop on the emptied container returns
\* None and leaves the length at 0.  (In phase "pop" the run is pushes
\* followed by pops only, and the k-th push pushed the value k-1.)
C1_PushPopSymmetry ==
    (phase = "pop" /\ call.name = "pop") =>
        IF pre.len > 0
        THEN ret = Some(pre.len - 1) /\ len_of(this) = pre.len - 1
        ELSE ret = None /\ len_of(this) = 0

\* C2: under any interleaving of push and pop, a pop on a non-empty
\* container returns the most recently pushed item not yet popped and
\* decreases the length by one; pop returns None only when the length is 0.
C2_PopReturnsLast ==
    (phase # "any" /\ call.name = "pop") =>
        /\ pre.len > 0 => /\ Len(prelive) > 0
                          /\ ret = Some(prelive[Len(prelive)])
                          /\ len = pre.len - 1
        /\ ret = None => pre.len = 0

\* C3: remove(pos) with pos < length returns the item get(pos) returned
\* just before the call, and the length decreases by one.
C3_RemoveReturnsGet ==
    (call.name = "remove" /\ call.arg < pre.len) =>
        /\ ret.tag = "Some"
        /\ ret = get(pre, call.arg)
        /\ len = pre.len - 1

\* C4: after pushing v_0..v_(n-1) onto an empty container, v_pos sits in
\* page pos div page_size at offset pos mod page_size, and get(pos) and
\* get_mut(pos) return it.
C4_PushLayout ==
    phase = "push" =>
        \A pos \in 0 .. len - 1 :
            LET pg  == pos \div psize
                off == pos % psize
            IN  /\ pg < Len(dlist)
                /\ off < Len(dlist[pg + 1].items)
                /\ dlist[pg + 1].items[off + 1] = pos
                /\ get(this, pos) = Some(pos)
                /\ get_mut(this, pos) = Some(pos)

\* C5: get(pos) with pos >= len() returns None and never aborts, whatever
\* the history.
C5_GetOutOfRange ==
    (call.name = "get" /\ call.arg >= pre.len) => ret = None

\* C6: after every completed public operation the length equals the sum of
\* the item counts of all pages of the chain.
C6_LenIsSumOfPages ==
    Running => len = SumItems(dlist)

C6_Witness ==
    /\ call.name \in {"pop", "remove"}
    /\ ret.tag = "Some"
    /\ Len(dlist) >= 2
    /\ len > 0

\* What remove(pos) must leave behind when it swaps: position pos holds the
\* former last item, every other remaining position holds what it held.
SwapRemoved(pos) ==
    /\ ret.tag # "Panic"
    /\ \A q \in 0 .. pre.len - 2 :
          get(this, q) = IF q = pos THEN get(pre, pre.len - 1) ELSE get(pre, q)

\* C7: when pos < length-1 and pos and length-1 lie in different pages,
\* remove(pos) does not abort and exchanges exactly the items at pos and at
\* length-1 before removing the tail.
C7_CrossPageRemove ==
    (/\ call.name = "remove"
     /\ call.arg < pre.len - 1
     /\ page_of(pre, call.arg) # page_of(pre, pre.len - 1)) => SwapRemoved(call.arg)

\* C8: when pos < length-1 and pos and length-1 lie in the same page,
\* remove(pos) does not abort and leaves the former last item at pos, every
\* other remaining position unchanged.
C8_SamePageRemove ==
    (/\ call.name = "remove"
     /\ call.arg < pre.len - 1
     /\ page_of(pre, call.arg) = page_of(pre, pre.len - 1)) => SwapRemoved(call.arg)

\* C9: remove(pos) with pos >= length (any pos on an empty container
\* included) returns None without aborting and changes neither the length
\* nor any page.
C9_RemoveOutOfRange ==
    (call.name = "remove" /\ call.arg >= pre.len) =>
        /\ ret = None
        /\ dlist = pre.dlist
        /\ len = pre.len

C9_Witness ==
    /\ call.name = "remove"
    /\ pre.len = 0
    /\ call.arg < UsizeMax
    /\ Len(pre.dlist) > 0
    /\ ret = None

\* C10: with length > 0, remove(length-1) is pop(): no swap, the same
\* returned value and the same resulting container.
C10_RemoveLastIsPop ==
    (call.name = "remove" /\ pre.len > 0 /\ call.arg = pre.len - 1) =>
        /\ ret = pop(pre).ret
        /\ this = pop(pre).self

C10_Witness ==
    /\ call.name = "remove"
    /\ pre.len > 1
    /\ call.arg = pre.len - 1
    /\ ret.tag = "Some"
    /\ len = pre.len - 1

\* C11: whatever the sequence of push, pop and remove calls, every page of
\* the chain holds at most page_size items.
C11_PageWithinCapacity ==
    \A i \in 1 .. Len(dlist) : Len(dlist[i].items) <= psize

\* C12: after every completed public operation every page except possibly
\* the last holds exactly page_size items.
C12_OnlyLastPagePartial ==
    Running => \A i \in 1 .. Len(dlist) - 1 : Len(dlist[i].items) = psize

\* C13: after every completed public operation at most one page at the
\* tail of the chain is empty.
C13_OneEmptyTrailingPage ==
    (Running /\ Len(dlist) >= 2) =>
        ~ (/\ dlist[Len(dlist)].items = << >>
           /\ dlist[Len(dlist) - 1].items = << >>)

\* ceil(n / d) for d > 0
CeilDiv(n, d) == (n + d - 1) \div d

\* C14: push appends a page only when the existing pages cannot hold
\* length+1 items, so n pushes onto an empty container leave exactly
\* ceil(n / page_size) pages.
C14_PagesAfterPushes ==
    /\ (call.name = "push" /\ Len(dlist) > Len(pre.dlist)) =>
            Len(pre.dlist) * psize < pre.len + 1
    /\ phase = "push" => Len(dlist) = CeilDiv(len, psize)

\* C15: for every positive page size, whenever length > 0 the page
\* page_of(length) that pop addresses is in the chain, so pop never aborts
\* on a missing page.
C15_PopPageExists ==
    /\ len > 0 => page_of(this, len) < Len(dlist)
    /\ call.name = "pop" => ret # Panic

\* C16: after any sequence of push and pop calls on a fresh container,
\* len() is the number of pushes minus the number of pops that returned an
\* item.
C16_LenIsPushesMinusPops ==
    phase # "any" => len_of(this) = pushed - popped

C16_Witness ==
    /\ phase = "pushpop"
    /\ call.name = "pop"
    /\ ret.tag = "Some"
    /\ popped >= 2
    /\ len_of(this) > 0

\* What C17 says of page_of apart from its value at 2P+1: it is
\* pos div page_size (P * page_of(pos) <= pos < P * (page_of(pos) + 1)),
\* non-decreasing in pos, page_of(0) = ... = page_of(P-1) = 0,
\* page_of(P) = 1, page_of(2P) = 2, and a call changes nothing of the
\* container.
PageOfIsDiv ==
    /\ \A pos \in PagePositions :
          /\ psize * page_of(this, pos) <= pos
          /\ pos < psize * (page_of(this, pos) + 1)
    /\ \A a, b \in PagePositions : a <= b => page_of(this, a) <= page_of(this, b)
    /\ \A pos \in 0 .. psize - 1 : page_of(this, pos) = 0
    /\ page_of(this, psize) = 1
    /\ page_of(this, 2 * psize) = 2
    /\ call.name = "page_of" =>
          /\ ret.tag = "Usize"
          /\ psize * ret.val <= call.arg
          /\ call.arg < psize * (ret.val + 1)
          /\ this = pre

\* C17 as stated: page_of is pos div P for every positive page size P, is
\* non-decreasing, changes no state, and page_of(0) = ... = page_of(P-1) = 0,
\* page_of(P) = 1, page_of(2P) = page_of(2P+1) = 2.
C17_PageOf_Original ==
    /\ PageOfIsDiv
    /\ page_of(this, 2 * psize + 1) = 2

\* C17 amended: as above, but page_of(2P+1) = 2 only for P >= 2; for P = 1
\* page_of(2P+1) = page_of(3) = 3.
C17_PageOf ==
    /\ PageOfIsDiv
    /\ psize >= 2 => page_of(this, 2 * psize + 1) = 2
    /\ psize = 1 => page_of(this, 2 * psize + 1) = 3

C17_Witness ==
    /\ call.name = "page_of"
    /\ psize >= 2
    /\ call.arg = 2 * psize + 1
    /\ ret = Usize(2)
    /\ len > 0

\* C18: push(item) grows the chain by at most one page, appended at the
\* tail; item becomes the final item of the chain's last page; every other
\* page, and the items already in the last page, stay as they were.
C18_PushFrame ==
    call.name = "push" =>
        LET n   == Len(dlist)
            old == IF n = Len(pre.dlist) THEN pre.dlist[n].items ELSE << >>
        IN  /\ n \in {Len(pre.dlist), Len(pre.dlist) + 1}
            /\ n >= 1
            /\ dlist[n].items = Append(old, call.arg)
            /\ \A i \in 1 .. n - 1 : dlist[i] = pre.dlist[i]

C18_Witness ==
    /\ call.name = "push"
    /\ Len(dlist) = Len(pre.dlist)
    /\ Len(dlist) >= 2
    /\ Len(dlist[Len(dlist)].items) >= 2
    /\ page_of(pre, pre.len) < Len(dlist) - 1

\* All items of the chain, page after page.
RECURSIVE AllItems(_)
AllItems(dl) == IF dl = << >> THEN << >> ELSE Head(dl).items \o AllItems(Tail(dl))

\* Number of occurrences of v in the chain: the stored multiset.
Count(dl, v) == Cardinality({i \in 1 .. Len(AllItems(dl)) : AllItems(dl)[i] = v})

\* C19: when pop or remove returns an item, the multiset of stored items
\* is the one before the call minus one occurrence of that item; when
\* either returns None the multiset is unchanged.
C19_ElementConservation ==
    call.name \in {"pop", "remove"} =>
        /\ ret.tag = "Some" =>
              \A v \in 0 .. MaxPush - 1 :
                  Count(dlist, v) = Count(pre.dlist, v) - (IF v = ret.val THEN 1 ELSE 0)
        /\ ret = None =>
              \A v \in 0 .. MaxPush - 1 : Count(dlist, v) = Count(pre.dlist, v)

\* a remove that swapped two items inside a page and then returned one
C19_Witness ==
    /\ call.name = "remove"
    /\ ret.tag = "Some"
    /\ call.arg < pre.len - 1
    /\ \E i \in 1 .. Len(dlist) :
          /\ dlist[i].items # << >>
          /\ dlist[i].items # SubSeq(pre.dlist[i].items, 1, Len(dlist[i].items))

====
